---------------------------- MODULE Spec2Model ----------------------------
(***************************************************************************)
(* Model of matylla/signal-bitget.                                         *)
(*                                                                         *)
(*   HotBarAggregator (src/unnamed/part_000): 1-second and 1-minute OHLCV  *)
(*   bars built from a trade stream, completed bars written to Redis       *)
(*   sorted sets.                                                          *)
(*   BitgetWebsockets (src/websockets.js): sharded websocket sessions with *)
(*   heartbeat timers and delayed respawn.                                 *)
(*   Price worker (src/workerPrice.js): samples the stored 1-second bars   *)
(*   on a fixed grid of offsets after a signal and inserts one document.   *)
(*   restGET (src/restHelper.js): an HTTP GET retried with backoff.        *)
(***************************************************************************)
EXTENDS Integers, Sequences, FiniteSets, TLC

VARIABLES
    buffers,    \* HotBarAggregator.buffers: Map(lower-case symbol -> buf)
    zadds,      \* the MULTI/ZADD/EXPIRE transactions issued to Redis, in order
    lost,       \* the transactions whose exec() was rejected (logged), in order
    trades,     \* history: the arguments of every processTrade call, in order
    ws,         \* every WebSocket object ever created, by id: closure and readyState
    sockets,    \* BitgetWebsockets._sockets: the ids pushed, in order
    pingTimers, \* BitgetWebsockets._pingTimers: Map(ws id -> interval timer id)
    intervals,  \* the interval timers (setInterval) that are active
    timeouts,   \* the pending setTimeout callbacks: respawns waiting for their delay
    out,        \* the frames sent and events emitted by the last operation, in order
    exited,     \* process.exit was called
    lastShards, \* history: the chunks computed by the latest connect() call
    redis,      \* the sorted sets the price worker reads: key -> set of (score, member)
    prices,     \* the documents of mongo.prices, in insertion order
    jobs,       \* history: every delivery of a bitget_price job and how it settled
    rest        \* one call of restGET: its position, its locals and what it did

aggVars == <<buffers, zadds, lost, trades>>

wsVars == <<ws, sockets, pingTimers, intervals, timeouts, out, exited, lastShards>>

samplerVars == <<redis, prices, jobs>>

vars == <<buffers, zadds, lost, trades, ws, sockets, pingTimers, intervals, timeouts, out,
          exited, lastShards, redis, prices, jobs, rest>>

-----------------------------------------------------------------------------
(* Bounds and input sets of the aggregator.                                *)

MaxTrades == 4

Prices == {1, 2}

Volumes == {0, 1}

\* event times in ms: fine buckets 119, 120, 121; coarse buckets 1 and 2
EventTimesMs == {119500, 120000, 121999}

\* the trades fed to processTrade: every combination for one instrument, and two
\* trades of a second instrument, spelled in both cases
TradeInputs ==
    [symbol : {"BTCUSDT"}, price : Prices, volume : Volumes, ms : EventTimesMs]
    \cup {[symbol |-> "ethusdt", price |-> 2, volume |-> 1, ms |-> 120000],
          [symbol |-> "ETHUSDT", price |-> 1, volume |-> 1, ms |-> 121999]}

-----------------------------------------------------------------------------
(* HotBarAggregator                                                        *)

NoBucket == -1

SecExpireSecs == 6 * 3600

MinExpireSecs == 24 * 3600

toLowerCase(s) ==
    CASE s = "BTCUSDT" -> "btcusdt"
      [] s = "btcusdt" -> "btcusdt"
      [] s = "ETHUSDT" -> "ethusdt"
      [] s = "ethusdt" -> "ethusdt"
      [] OTHER -> s

Max(a, b) == IF a >= b THEN a ELSE b

Min(a, b) == IF a <= b THEN a ELSE b

NewBuf ==
    [secBucketTS |-> NoBucket,
     secOpen |-> 0, secHigh |-> 0, secLow |-> 0, secClose |-> 0, secVol |-> 0,
     minBucketTS |-> NoBucket,
     minOpen |-> 0, minHigh |-> 0, minLow |-> 0, minClose |-> 0, minVol |-> 0]

\* JSON.stringify(bar): the fields in the order t, o, h, l, c, v
Stringify(bar) == <<bar.t, bar.o, bar.h, bar.l, bar.c, bar.v>>

\* JSON.parse of such a string
Parse(str) ==
    [t |-> str[1], o |-> str[2], h |-> str[3], l |-> str[4], c |-> str[5], v |-> str[6]]

SecBucketOf(eventTimeMs) == eventTimeMs \div 1000

\* faulty variant: the minute bucket as its start in seconds
MinBucketInSeconds(eventTimeMs) == (eventTimeMs \div 60000) * 60

MinBucketOf(eventTimeMs) == eventTimeMs \div 60000

SecKey(sym) == <<"bitget:secbar:", sym>>

MinKey(sym) == <<"bitget:minbar:", sym>>

\* redis.multi().zadd(key, bar.t, JSON.stringify(bar)).expire(key, ttl).exec()
Zadd(key, bar, ttl) ==
    [key |-> key, score |-> bar.t, member |-> Stringify(bar), expire |-> ttl]

\* the second-bar of buf, as flushed
SecBar(buf) ==
    [t |-> buf.secBucketTS, o |-> buf.secOpen, h |-> buf.secHigh,
     l |-> buf.secLow, c |-> buf.secClose, v |-> buf.secVol]

\* the minute-bar of buf, as flushed
MinBar(buf) ==
    [t |-> buf.minBucketTS, o |-> buf.minOpen, h |-> buf.minHigh,
     l |-> buf.minLow, c |-> buf.minClose, v |-> buf.minVol]

\* faulty variant: the new bucket keeps the volume of the bucket before it
SecSeedCarry(buf, secBucket, tradePrice, tradeVolume) ==
    [buf EXCEPT !.secBucketTS = secBucket,
                !.secOpen = tradePrice, !.secHigh = tradePrice,
                !.secLow = tradePrice, !.secClose = tradePrice,
                !.secVol = buf.secVol + tradeVolume]

SecSeed(buf, secBucket, tradePrice, tradeVolume) ==
    [buf EXCEPT !.secBucketTS = secBucket,
                !.secOpen = tradePrice, !.secHigh = tradePrice,
                !.secLow = tradePrice, !.secClose = tradePrice,
                !.secVol = tradeVolume]

\* faulty variant: the close is not moved to the last trade
SecUpdateKeepClose(buf, tradePrice, tradeVolume) ==
    [buf EXCEPT !.secHigh = Max(buf.secHigh, tradePrice),
                !.secLow = Min(buf.secLow, tradePrice),
                !.secVol = buf.secVol + tradeVolume]

SecUpdate(buf, tradePrice, tradeVolume) ==
    [buf EXCEPT !.secHigh = Max(buf.secHigh, tradePrice),
                !.secLow = Min(buf.secLow, tradePrice),
                !.secClose = tradePrice,
                !.secVol = buf.secVol + tradeVolume]

MinSeed(buf, minBucket, tradePrice, tradeVolume) ==
    [buf EXCEPT !.minBucketTS = minBucket,
                !.minOpen = tradePrice, !.minHigh = tradePrice,
                !.minLow = tradePrice, !.minClose = tradePrice,
                !.minVol = tradeVolume]

\* faulty variant: the high is not raised
MinUpdateKeepHigh(buf, tradePrice, tradeVolume) ==
    [buf EXCEPT !.minLow = Min(buf.minLow, tradePrice),
                !.minClose = tradePrice,
                !.minVol = buf.minVol + tradeVolume]

MinUpdate(buf, tradePrice, tradeVolume) ==
    [buf EXCEPT !.minHigh = Max(buf.minHigh, tradePrice),
                !.minLow = Min(buf.minLow, tradePrice),
                !.minClose = tradePrice,
                !.minVol = buf.minVol + tradeVolume]

\* "Second bar logic": the new buf and the transactions issued
SecondBarLogic(sym, buf, secBucket, tradePrice, tradeVolume) ==
    IF buf.secBucketTS = NoBucket
    THEN [buf |-> SecSeed(buf, secBucket, tradePrice, tradeVolume), out |-> <<>>]
    ELSE IF secBucket = buf.secBucketTS
    THEN [buf |-> SecUpdate(buf, tradePrice, tradeVolume), out |-> <<>>]
    ELSE [buf |-> SecSeed(buf, secBucket, tradePrice, tradeVolume),
          out |-> <<Zadd(SecKey(sym), SecBar(buf), SecExpireSecs)>>]

\* faulty variant: the minute flush is not gated
FlushGateOpen(secBucket) == secBucket >= 0

\* the gate of the minute flush: secBucket % 60 === 0
FlushGate(secBucket) == secBucket % 60 = 0

\* faulty variant: a trade of another minute that does not pass the gate is
\* merged into the open minute
MinuteBarLogicAbsorb(sym, buf, secBucket, minBucket, tradePrice, tradeVolume) ==
    IF buf.minBucketTS = NoBucket
    THEN [buf |-> MinSeed(buf, minBucket, tradePrice, tradeVolume), out |-> <<>>]
    ELSE IF minBucket = buf.minBucketTS \/ ~FlushGate(secBucket)
    THEN [buf |-> MinUpdate(buf, tradePrice, tradeVolume), out |-> <<>>]
    ELSE [buf |-> MinSeed(buf, minBucket, tradePrice, tradeVolume),
          out |-> <<Zadd(MinKey(sym), MinBar(buf), MinExpireSecs)>>]

\* "Minute bar logic": the new buf and the transactions issued
MinuteBarLogic(sym, buf, secBucket, minBucket, tradePrice, tradeVolume) ==
    IF buf.minBucketTS = NoBucket
    THEN [buf |-> MinSeed(buf, minBucket, tradePrice, tradeVolume), out |-> <<>>]
    ELSE IF minBucket = buf.minBucketTS
    THEN [buf |-> MinUpdate(buf, tradePrice, tradeVolume), out |-> <<>>]
    ELSE IF FlushGate(secBucket)
    THEN [buf |-> MinSeed(buf, minBucket, tradePrice, tradeVolume),
          out |-> <<Zadd(MinKey(sym), MinBar(buf), MinExpireSecs)>>]
    ELSE [buf |-> buf, out |-> <<>>]

\* this.buffers.get(sym), created when absent
BufOf(bufs, sym) == IF sym \in DOMAIN bufs THEN bufs[sym] ELSE NewBuf

processTrade(symbol, tradePrice, tradeVolume, eventTimeMs) ==
    LET sym == toLowerCase(symbol)
        buf == BufOf(buffers, sym)
        secBucket == SecBucketOf(eventTimeMs)
        minBucket == MinBucketOf(eventTimeMs)
        s == SecondBarLogic(sym, buf, secBucket, tradePrice, tradeVolume)
        m == MinuteBarLogic(sym, s.buf, secBucket, minBucket, tradePrice, tradeVolume)
    IN  /\ Len(trades) < MaxTrades
        /\ buffers' = [k \in DOMAIN buffers \cup {sym} |-> IF k = sym THEN m.buf ELSE buffers[k]]
        /\ zadds' = zadds \o s.out \o m.out
        /\ trades' = Append(trades, [symbol |-> symbol, price |-> tradePrice,
                                     volume |-> tradeVolume, ms |-> eventTimeMs])
        /\ UNCHANGED <<lost, wsVars, samplerVars, rest>>

\* the trades fed to the aggregator while Redis may reject its transactions:
\* one instrument, fine buckets 119, 120, 121 and 180, coarse buckets 1, 2 and 3
ExecTradeInputs ==
    [symbol : {"BTCUSDT"}, price : Prices, volume : {1}, ms : {119500, 180000}]
    \cup {[symbol |-> "BTCUSDT", price |-> 2, volume |-> 1, ms |-> 120000],
          [symbol |-> "BTCUSDT", price |-> 1, volume |-> 1, ms |-> 121999]}

\* .exec().catch(err => console.error(...)): the transactions of txs that are
\* logged as rejected
Caught(txs, ok) == IF ok THEN <<>> ELSE txs

\* faulty variant: a rejected flush leaves the accumulator as it was, so that
\* the completed bar is flushed again by the next trade
SecondBarLogicHold(sym, buf, secBucket, tradePrice, tradeVolume, ok) ==
    LET s == SecondBarLogic(sym, buf, secBucket, tradePrice, tradeVolume)
    IN  IF ok \/ s.out = <<>>
        THEN [buf |-> s.buf, out |-> s.out, lost |-> <<>>]
        ELSE [buf |-> buf, out |-> s.out, lost |-> s.out]

\* "Second bar logic" when exec() may be rejected: the transaction is not
\* awaited, buf is reseeded right after it is issued
SecondBarLogicExec(sym, buf, secBucket, tradePrice, tradeVolume, ok) ==
    LET s == SecondBarLogic(sym, buf, secBucket, tradePrice, tradeVolume)
    IN  [buf |-> s.buf, out |-> s.out, lost |-> Caught(s.out, ok)]

\* "Minute bar logic" when exec() may be rejected
MinuteBarLogicExec(sym, buf, secBucket, minBucket, tradePrice, tradeVolume, ok) ==
    LET m == MinuteBarLogic(sym, buf, secBucket, minBucket, tradePrice, tradeVolume)
    IN  [buf |-> m.buf, out |-> m.out, lost |-> Caught(m.out, ok)]

\* processTrade, secOk and minOk telling whether Redis accepts the transaction
\* of the second bar and of the minute bar, should the trade issue one
processTradeExec(symbol, tradePrice, tradeVolume, eventTimeMs, secOk, minOk) ==
    LET sym == toLowerCase(symbol)
        buf == BufOf(buffers, sym)
        secBucket == SecBucketOf(eventTimeMs)
        minBucket == MinBucketOf(eventTimeMs)
        s == SecondBarLogicExec(sym, buf, secBucket, tradePrice, tradeVolume, secOk)
        m == MinuteBarLogicExec(sym, s.buf, secBucket, minBucket, tradePrice,
                                tradeVolume, minOk)
    IN  /\ Len(trades) < MaxTrades
        /\ buffers' = [k \in DOMAIN buffers \cup {sym} |-> IF k = sym THEN m.buf ELSE buffers[k]]
        /\ zadds' = zadds \o s.out \o m.out
        /\ lost' = lost \o s.lost \o m.lost
        /\ trades' = Append(trades, [symbol |-> symbol, price |-> tradePrice,
                                     volume |-> tradeVolume, ms |-> eventTimeMs])
        /\ UNCHANGED <<wsVars, samplerVars, rest>>

-----------------------------------------------------------------------------
(* Bounds and input sets of the adapter.                                   *)

\* WebSocket objects created in one run, counting the respawns still waiting
MaxSockets == 4

\* a "symbol@stream" string: the symbol, whether an "@" follows it, and the
\* text after the first "@"
StreamNames == <<"bookTicker", "aggTrade", "ticker", "depth5@100ms">>

\* every 4th channel has no mapping: alternately a bookTicker stream and a
\* string without "@"
Channel(i) ==
    [symbol |-> <<"sym", i>>,
     at |-> (i % 8 # 0),
     stream |-> IF i % 8 = 0 THEN "" ELSE StreamNames[(i % 4) + 1]]

ChannelList(n) == [i \in 1..n |-> Channel(i)]

\* lists with 0, 3, 51 and 120 mapped channels, and one with no mapped channel
ChannelLists ==
    {ChannelList(0), ChannelList(3), ChannelList(68), ChannelList(160),
     <<Channel(4), Channel(8)>>}

-----------------------------------------------------------------------------
(* BitgetWebsockets                                                        *)

MAX_ARGS_PER_WS == 50

SUB_BATCH_SIZE == 20

toUpperCase(symbol) ==
    <<CASE symbol[1] = "sym" -> "SYM" [] OTHER -> symbol[1], symbol[2]>>

\* the null of mapChannelToArg
NullArg == [instType |-> "", channel |-> "", instId |-> <<"", 0>>]

mapChannelToArg(ch) ==
    IF ~ch.at THEN NullArg
    ELSE LET symbol == toUpperCase(ch.symbol)
             stream == CASE ch.stream = "aggTrade" -> "aggtrade"
                         [] ch.stream = "bookTicker" -> "bookticker"
                         [] OTHER -> ch.stream
         IN  CASE stream = "aggtrade" ->
                    [instType |-> "SPOT", channel |-> "trade", instId |-> symbol]
               [] stream = "ticker" ->
                    [instType |-> "SPOT", channel |-> "ticker", instId |-> symbol]
               [] stream = "depth5@100ms" ->
                    [instType |-> "SPOT", channel |-> "books5", instId |-> symbol]
               [] OTHER -> NullArg

\* channels.map(mapChannelToArg).filter(Boolean)
MappedArgs(channels) ==
    SelectSeq([i \in 1..Len(channels) |-> mapChannelToArg(channels[i])],
              LAMBDA a : a # NullArg)

\* faulty variant: the last, partial chunk is dropped
ChunksFullOnly(a, size) ==
    [k \in 1..(Len(a) \div size) |-> SubSeq(a, (k - 1) * size + 1, k * size)]

\* for (i = 0; i < a.length; i += size) push(a.slice(i, i + size))
Chunks(a, size) ==
    [k \in 1..((Len(a) + size - 1) \div size) |->
        SubSeq(a, (k - 1) * size + 1, Min(k * size, Len(a)))]

Send(w, name, args) == [kind |-> "send", ws |-> w, name |-> name, args |-> args]

Emit(name) == [kind |-> "emit", ws |-> 0, name |-> name, args |-> <<>>]

\* new WebSocket(WS_URL) with the four listeners of _spawnSocket; parent is the
\* socket whose close scheduled this one (0: spawned by connect)
NewSocket(argChunk, parent) ==
    [argChunk |-> argChunk, readyState |-> "CONNECTING", listeners |-> TRUE,
     parent |-> parent]

\* ws.close(): a socket that is not closed yet starts closing
CloseCalled(readyState) ==
    IF readyState \in {"CONNECTING", "OPEN"} THEN "CLOSING" ELSE readyState

\* the loop of disconnect() over this._sockets, on the WebSocket objects
DisconnectSockets(socks, tracked) ==
    [w \in 1..Len(socks) |->
        IF \E i \in 1..Len(tracked) : tracked[i] = w
        THEN [socks[w] EXCEPT !.listeners = FALSE,
                              !.readyState = CloseCalled(socks[w].readyState)]
        ELSE socks[w]]

\* faulty variant: the heartbeat timers are forgotten, not cancelled
DisconnectIntervalsKept(active, timers, tracked) == active

\* clearInterval(this._pingTimers.get(ws)) for every ws of this._sockets
DisconnectIntervals(active, timers, tracked) ==
    active \ {timers[w] : w \in {tracked[i] : i \in 1..Len(tracked)} \cap DOMAIN timers}

NoTimers == [w \in {} |-> 0]

\* disconnect() on the adapter state <<ws, sockets, pingTimers, intervals, timeouts>>
DisconnectResult(st) ==
    [ws |-> DisconnectSockets(st.ws, st.sockets),
     sockets |-> <<>>,
     pingTimers |-> NoTimers,
     intervals |-> DisconnectIntervals(st.intervals, st.pingTimers, st.sockets),
     timeouts |-> st.timeouts]

AdapterState ==
    [ws |-> ws, sockets |-> sockets, pingTimers |-> pingTimers,
     intervals |-> intervals, timeouts |-> timeouts]

\* room for n more WebSocket objects, the waiting respawns counted
Room(n) == Len(ws) + Cardinality(timeouts) + n <= MaxSockets

connect(channels) ==
    LET d == DisconnectResult(AdapterState)
        args == MappedArgs(channels)
        chunks == Chunks(args, MAX_ARGS_PER_WS)
    IN  /\ ~exited
        /\ Room(Len(chunks))
        /\ pingTimers' = d.pingTimers
        /\ intervals' = d.intervals
        /\ timeouts' = d.timeouts
        /\ IF Len(args) = 0
           THEN /\ ws' = d.ws
                /\ sockets' = d.sockets
           ELSE /\ ws' = d.ws \o [k \in 1..Len(chunks) |-> NewSocket(chunks[k], 0)]
                /\ sockets' = [k \in 1..Len(chunks) |-> Len(ws) + k]
        /\ out' = <<Emit("disconnected")>>
        /\ lastShards' = IF Len(args) = 0 THEN <<>> ELSE chunks
        /\ UNCHANGED <<exited, aggVars, samplerVars, rest>>

disconnect ==
    LET d == DisconnectResult(AdapterState)
    IN  /\ ~exited
        /\ ws' = d.ws
        /\ sockets' = d.sockets
        /\ pingTimers' = d.pingTimers
        /\ intervals' = d.intervals
        /\ timeouts' = d.timeouts
        /\ out' = <<Emit("disconnected")>>
        /\ UNCHANGED <<exited, lastShards, aggVars, samplerVars, rest>>

\* stop() of app.js: bgStream.disconnect(), then process.exit(0)
stop ==
    LET d == DisconnectResult(AdapterState)
    IN  /\ ~exited
        /\ Len(ws) > 0
        /\ ws' = d.ws
        /\ sockets' = d.sockets
        /\ pingTimers' = d.pingTimers
        /\ intervals' = d.intervals
        /\ timeouts' = d.timeouts
        /\ out' = <<Emit("disconnected")>>
        /\ exited' = TRUE
        /\ UNCHANGED <<lastShards, aggVars, samplerVars, rest>>

\* faulty variant: the whole shard is subscribed in one frame
SubscribeOneFrame(w, argChunk) == <<Send(w, "subscribe", argChunk)>>

\* the subscribe frames of the "open" listener
SubscribeFrames(w, argChunk) ==
    LET slices == Chunks(argChunk, SUB_BATCH_SIZE)
    IN  [k \in 1..Len(slices) |-> Send(w, "subscribe", slices[k])]

\* the socket connects: ws.on("open")
onOpen(w) ==
    /\ ~exited
    /\ ws[w].readyState = "CONNECTING"
    /\ ws[w].listeners
    /\ ws' = [ws EXCEPT ![w].readyState = "OPEN"]
    /\ intervals' = intervals \cup {w}
    /\ pingTimers' = [k \in DOMAIN pingTimers \cup {w} |->
                         IF k = w THEN w ELSE pingTimers[k]]
    /\ out' = SubscribeFrames(w, ws[w].argChunk) \o <<Emit("open")>>
    /\ UNCHANGED <<sockets, timeouts, exited, lastShards, aggVars, samplerVars, rest>>

\* faulty variant: the respawn loses the first descriptor of the shard
RespawnTail(w, argChunk) == [from |-> w, argChunk |-> Tail(argChunk)]

\* the respawn scheduled by the "close" listener
Respawn(w, argChunk) == [from |-> w, argChunk |-> argChunk]

\* faulty variant: the close listener forgets the heartbeat timer without
\* cancelling it
CloseListenerKeepTimer(w) ==
    [intervals |-> intervals,
     pingTimers |-> [k \in DOMAIN pingTimers \ {w} |-> pingTimers[k]],
     timeouts |-> timeouts \cup {Respawn(w, ws[w].argChunk)}]

\* the listener of "close" on socket w: the timers after it ran
CloseListener(w) ==
    [intervals |-> IF w \in DOMAIN pingTimers THEN intervals \ {pingTimers[w]}
                   ELSE intervals,
     pingTimers |-> [k \in DOMAIN pingTimers \ {w} |-> pingTimers[k]],
     timeouts |-> timeouts \cup {Respawn(w, ws[w].argChunk)}]

\* the socket closes (handshake failure, network error, server close) and its
\* "close" listener runs. A socket closed by disconnect() has no listener left:
\* its close event runs no code of the adapter and is not a step.
onClose(w) ==
    LET c == CloseListener(w)
    IN  /\ ~exited
        /\ ws[w].readyState \in {"CONNECTING", "OPEN"}
        /\ ws[w].listeners
        /\ Room(1)
        /\ ws' = [ws EXCEPT ![w].readyState = "CLOSED"]
        /\ intervals' = c.intervals
        /\ pingTimers' = c.pingTimers
        /\ timeouts' = c.timeouts
        /\ out' = <<Emit("close")>>
        /\ UNCHANGED <<sockets, exited, lastShards, aggVars, samplerVars, rest>>

\* the reconnect delay of a closed socket elapses: _spawnSocket(argChunk)
respawn(t) ==
    /\ ~exited
    /\ timeouts' = timeouts \ {t}
    /\ ws' = Append(ws, NewSocket(t.argChunk, t.from))
    /\ sockets' = Append(sockets, Len(ws) + 1)
    /\ out' = <<>>
    /\ UNCHANGED <<pingTimers, intervals, exited, lastShards, aggVars, samplerVars, rest>>

-----------------------------------------------------------------------------
(* BitgetWebsockets: inbound frames                                        *)

\* the texts received: heartbeats, a text that is no JSON, an error frame with
\* a retCode (and a payload), a subscribe confirmation, pushes of the three
\* channels, books without asks, a push with retCode 0, and a push whose arg
\* names no instrument
PingFrame == "ping"

PongFrame == "pong"

BrokenFrame == "{"

RetCodeFrame == "{\"retCode\":30001,\"retMsg\":\"bad\",\"arg\":{\"channel\":\"trade\",\"instId\":\"BTCUSDT\"},\"data\":[{\"ts\":\"119500\",\"price\":\"1\",\"size\":\"1\",\"side\":\"sell\"}]}"

ConfirmFrame == "{\"event\":\"subscribe\",\"arg\":{\"channel\":\"trade\",\"instId\":\"BTCUSDT\"}}"

TradeFrame == "{\"arg\":{\"channel\":\"trade\",\"instId\":\"BTCUSDT\"},\"data\":[{\"ts\":\"119500\",\"price\":\"1\",\"size\":\"1\",\"side\":\"sell\"},{\"ts\":\"120000\",\"price\":\"2\",\"size\":\"1\",\"side\":\"buy\"}]}"

RetCodeZeroFrame == "{\"retCode\":0,\"arg\":{\"channel\":\"trade\",\"instId\":\"ETHUSDT\"},\"data\":[{\"ts\":\"120000\",\"price\":\"2\",\"size\":\"1\"}]}"

TickerFrame == "{\"arg\":{\"channel\":\"ticker\",\"instId\":\"BTCUSDT\"},\"data\":[{\"lastPr\":\"2\",\"high24h\":\"2\",\"low24h\":\"1\",\"change24h\":\"0.01\",\"quoteVolume\":\"1250\"}]}"

BooksFrame == "{\"arg\":{\"channel\":\"books5\",\"instId\":\"BTCUSDT\"},\"data\":[{\"bids\":[[\"1\",\"3\"]],\"asks\":[[\"2\",\"4\"]]}]}"

BooksNoAsksFrame == "{\"arg\":{\"channel\":\"books5\",\"instId\":\"BTCUSDT\"},\"data\":[{\"bids\":[[\"1\",\"3\"]],\"asks\":[]}]}"

NoInstIdFrame == "{\"arg\":{\"channel\":\"trade\"},\"data\":[{\"ts\":\"119500\",\"price\":\"1\",\"size\":\"1\",\"side\":\"sell\"}]}"

Frames ==
    {PingFrame, PongFrame, BrokenFrame, RetCodeFrame, ConfirmFrame, TradeFrame,
     RetCodeZeroFrame, TickerFrame, BooksFrame, BooksNoAsksFrame, NoInstIdFrame}

\* a property that may be absent is <<>> when it is (undefined), and <<x>> when
\* its value is x
Undefined == <<>>

Msg(retCode, arg, data) == [retCode |-> retCode, arg |-> arg, data |-> data]

Arg(channel, instId) == <<[channel |-> channel, instId |-> instId]>>

TradeItem(ts, price, size, side) ==
    [ts |-> ts, price |-> price, size |-> size, side |-> side]

\* JSON.parse(str): the value, or a SyntaxError thrown
JSONparse(str) ==
    CASE str = RetCodeFrame ->
            [threw |-> FALSE,
             value |-> Msg(<<30001>>, Arg("trade", <<"BTCUSDT">>),
                           <<<<TradeItem("119500", "1", "1", <<"sell">>)>>>>)]
      [] str = ConfirmFrame ->
            [threw |-> FALSE,
             value |-> Msg(Undefined, Arg("trade", <<"BTCUSDT">>), Undefined)]
      [] str = TradeFrame ->
            [threw |-> FALSE,
             value |-> Msg(Undefined, Arg("trade", <<"BTCUSDT">>),
                           <<<<TradeItem("119500", "1", "1", <<"sell">>),
                               TradeItem("120000", "2", "1", <<"buy">>)>>>>)]
      [] str = RetCodeZeroFrame ->
            [threw |-> FALSE,
             value |-> Msg(<<0>>, Arg("trade", <<"ETHUSDT">>),
                           <<<<TradeItem("120000", "2", "1", Undefined)>>>>)]
      [] str = TickerFrame ->
            [threw |-> FALSE,
             value |-> Msg(Undefined, Arg("ticker", <<"BTCUSDT">>),
                           <<<<[lastPr |-> "2", high24h |-> "2", low24h |-> "1",
                                change24h |-> <<"0.01">>, quoteVolume |-> <<"1250">>]>>>>)]
      [] str = BooksFrame ->
            [threw |-> FALSE,
             value |-> Msg(Undefined, Arg("books5", <<"BTCUSDT">>),
                           <<<<[bids |-> <<<<<<"1", "3">>>>>>,
                                asks |-> <<<<<<"2", "4">>>>>>]>>>>)]
      [] str = BooksNoAsksFrame ->
            [threw |-> FALSE,
             value |-> Msg(Undefined, Arg("books5", <<"BTCUSDT">>),
                           <<<<[bids |-> <<<<<<"1", "3">>>>>>, asks |-> <<<<>>>>]>>>>)]
      [] str = NoInstIdFrame ->
            [threw |-> FALSE,
             value |-> Msg(Undefined, Arg("trade", Undefined),
                           <<<<TradeItem("119500", "1", "1", <<"sell">>)>>>>)]
      [] OTHER -> [threw |-> TRUE, value |-> Msg(Undefined, Undefined, Undefined)]

\* parseInt(s, 10)
parseInt(s) ==
    CASE s = "119500" -> 119500
      [] s = "120000" -> 120000

\* parseFloat(s)
parseFloat(s) ==
    CASE s = "1250" -> 1250
      [] s = "0" -> 0

\* (parseFloat(s) * 100).toFixed(4)
PercentFixed4(s) ==
    CASE s = "0.01" -> "1.0000"
      [] s = "0" -> "0.0000"

\* x ?? d
Coalesce(x, d) == IF x = Undefined THEN d ELSE x[1]

\* JSON.stringify of a translated message {stream, data}: the stream name and
\* the properties of data in the order they were written
StringifyMessage(symbolLower, suffix, data) ==
    <<"stream", <<symbolLower, suffix>>, "data">> \o data

\* the "trade" branch: one message for each element of msg.data
TranslateTrade(symbolLower, trades_) ==
    [i \in 1..Len(trades_) |->
        StringifyMessage(symbolLower, "@aggTrade",
            <<"p", trades_[i].price, "q", trades_[i].size,
              "E", parseInt(trades_[i].ts),
              "m", Coalesce(trades_[i].side, "") = "sell">>)]

\* the "ticker" branch
TranslateTicker(symbolLower, d) ==
    <<StringifyMessage(symbolLower, "@ticker",
        <<"q", parseFloat(Coalesce(d.quoteVolume, "0")),
          "P", PercentFixed4(Coalesce(d.change24h, "0")),
          "h", d.high24h, "l", d.low24h, "c", d.lastPr>>)>>

\* the "books5" branch: the depth message, and the best bid and ask when both
\* sides have a level
TranslateBooks(symbolLower, d) ==
    LET bids == Coalesce(d.bids, <<>>)
        asks == Coalesce(d.asks, <<>>)
    IN  <<StringifyMessage(symbolLower, "@depth5@100ms", <<"bids", bids, "asks", asks>>)>>
        \o (IF Len(bids) > 0 /\ Len(asks) > 0
            THEN <<StringifyMessage(symbolLower, "@bookTicker",
                                    <<"b", bids[1][1], "a", asks[1][1]>>)>>
            ELSE <<>>)

\* translateBitget(msg), each message stringified: the messages, or a
\* TypeError thrown
translateBitget(msg) ==
    IF msg.arg = Undefined \/ msg.data = Undefined
    THEN [threw |-> FALSE, out |-> <<>>]
    ELSE LET arg == msg.arg[1]
             data == msg.data[1]
         IN  IF arg.instId = Undefined \/ (arg.channel # "trade" /\ data = <<>>)
             THEN [threw |-> TRUE, out |-> <<>>]
             ELSE LET symbolLower == toLowerCase(arg.instId[1])
                  IN  [threw |-> FALSE,
                       out |-> CASE arg.channel = "trade" -> TranslateTrade(symbolLower, data)
                                 [] arg.channel = "ticker" ->
                                        TranslateTicker(symbolLower, data[1])
                                 [] arg.channel = "books5" ->
                                        TranslateBooks(symbolLower, data[1])
                                 [] OTHER -> <<>>]

\* this.emit(name, arg)
EmitWith(name, arg) == [kind |-> "emit", ws |-> 0, name |-> name, args |-> <<arg>>]

\* the catch block of the listener: this.emit("error", err)
Catch(err) == <<EmitWith("error", <<err>>)>>

\* faulty variant: a server heartbeat is answered on every tracked session
PongAll(w) == [k \in 1..Len(sockets) |-> Send(sockets[k], "pong", <<>>)]

\* the reply to a server heartbeat: ws.send("pong")
Pong(w) == <<Send(w, "pong", <<>>)>>

\* faulty variant: the retCode of a frame is not looked at
IsErrorFrameNever(msg) == FALSE

\* msg.retCode && msg.retCode !== 0
IsErrorFrame(msg) == msg.retCode # Undefined /\ msg.retCode[1] # 0

\* what the "message" listener of socket w sends and emits for the text str
MessageListener(w, str) ==
    IF str = "ping" THEN Pong(w)
    ELSE IF str = "pong" THEN <<>>
    ELSE LET parsed == JSONparse(str)
             msg == parsed.value
         IN  IF parsed.threw THEN Catch("SyntaxError")
             ELSE IF IsErrorFrame(msg) THEN <<>>
             ELSE LET t == translateBitget(msg)
                  IN  IF t.threw THEN Catch("TypeError")
                      ELSE [i \in 1..Len(t.out) |-> EmitWith("message", t.out[i])]

\* a frame arrives on socket w: ws.on("message")
onMessage(w, str) ==
    /\ ~exited
    /\ ws[w].readyState = "OPEN"
    /\ ws[w].listeners
    /\ out' = MessageListener(w, str)
    /\ UNCHANGED <<ws, sockets, pingTimers, intervals, timeouts, exited, lastShards,
                   aggVars, samplerVars, rest>>

-----------------------------------------------------------------------------
(* Price worker (src/workerPrice.js)                                       *)

MaxJobs == 2

\* a JS value that is a number, null, NaN or -Infinity
Number(n) == [kind |-> "number", value |-> n]

Null == [kind |-> "null", value |-> 0]

NaN == [kind |-> "NaN", value |-> 0]

NegInfinity == [kind |-> "-Infinity", value |-> 0]

OFFSETS_S ==
    <<1, 2, 3, 4, 5, 6, 7, 8, 9, 10, 11, 12, 13, 14, 15,
      16, 17, 18, 19, 20, 21, 22, 23, 24, 25, 26, 27, 28, 29, 30,
      45, 60, 90, 120, 150, 180, 210, 240, 270, 300,
      330, 360, 390, 420, 450, 480, 510, 540, 570, 600,
      660, 720, 780, 840, 900, 960, 1020, 1080, 1140, 1200,
      1260, 1320, 1380, 1440, 1500, 1560, 1620, 1680, 1740, 1800>>

WindowSecs == 1800

\* a stored 1-second bar of the model: flat at close c, volume c + 3
SampleBar(t, c) == [t |-> t, o |-> c, h |-> c, l |-> c, c |-> c, v |-> c + 3]

BarChoices(t, closes) == {{}} \cup {{SampleBar(t, c)} : c \in closes}

\* the bars stored for btcusdt: at most one bar for each of the seconds 0, 5,
\* 10 and 1801, and one store where second 5 was written twice
Stores ==
    {a \cup b \cup c \cup d :
        a \in BarChoices(0, {0, 1}), b \in BarChoices(5, {0, 1, 2}),
        c \in BarChoices(10, {1, 2}), d \in BarChoices(1801, {1})}
    \cup {{SampleBar(5, 1), SampleBar(5, 2)}}

\* the sorted set built by ZADD key bar.t JSON.stringify(bar) for each bar
SortedSet(bars) == {[score |-> b.t, member |-> Stringify(b)] : b \in bars}

\* job.data of the deliveries: two instants and spellings of one instrument, an
\* instrument with no stored bars, and an id that is no ObjectId
JobInputs ==
    {[id |-> "65a000000000000000000001", symbol |-> "BTCUSDT", timestamp |-> 500],
     [id |-> "65a000000000000000000002", symbol |-> "btcusdt", timestamp |-> 4999],
     [id |-> "65a000000000000000000003", symbol |-> "ETHUSDT", timestamp |-> 500],
     [id |-> "zz", symbol |-> "BTCUSDT", timestamp |-> 500]}

\* Redis orders members of equal score by their bytes
LexLess(a, b) ==
    \E i \in 1..Len(a) : a[i] < b[i] /\ \A j \in 1..(i - 1) : a[j] = b[j]

Before(x, y) ==
    x.score < y.score \/ (x.score = y.score /\ LexLess(x.member, y.member))

RECURSIVE Ascending(_)
Ascending(S) ==
    IF S = {} THEN <<>>
    ELSE LET x == CHOOSE x \in S : \A y \in S \ {x} : Before(x, y)
         IN  <<x>> \o Ascending(S \ {x})

\* redis.zrangebyscore(key, min, max): the members with min <= score <= max,
\* ascending; a missing key is an empty set
zrangebyscore(key, min, max) ==
    LET S == IF key \in DOMAIN redis
             THEN {x \in redis[key] : min <= x.score /\ x.score <= max}
             ELSE {}
        asc == Ascending(S)
    IN  [i \in 1..Len(asc) |-> asc[i].member]

\* 1000 * ln(n), for the closes of the model
Ln1000(n) == CASE n = 1 -> 0 [] n = 2 -> 693

\* Math.log(p1 / p0) in thousandths, p0 > 0
Log(p1, p0) ==
    IF p1 < 0 THEN NaN
    ELSE IF p1 = 0 THEN NegInfinity
    ELSE Number(Ln1000(p1) - Ln1000(p0))

\* the loop of realisedSigmaFromBars from index i on: one return for each pair
\* whose earlier close is positive
RECURSIVE Returns(_, _)
Returns(bars, i) ==
    IF i > Len(bars) THEN <<>>
    ELSE (IF bars[i - 1].c > 0 THEN <<Log(bars[i].c, bars[i - 1].c)>> ELSE <<>>)
         \o Returns(bars, i + 1)

RECURSIVE SumSeq(_)
SumSeq(xs) == IF xs = <<>> THEN 0 ELSE Head(xs) + SumSeq(Tail(xs))

\* Math.sqrt, rounded down to a whole number of thousandths
Sqrt(v) == CHOOSE r \in 0..v : r * r <= v /\ (r + 1) * (r + 1) > v

\* rets.reduce((s, x) => s + Math.pow(x - mu, 2), 0) / rets.length for finite
\* returns xs, mu = s / n: every term is (n * x - s)^2 / n^2
Variance(xs) ==
    LET n == Len(xs)
        s == SumSeq(xs)
    IN  SumSeq([i \in 1..n |-> (n * xs[i] - s) * (n * xs[i] - s)]) \div (n * n * n)

\* faulty variant: a single return is not enough
realisedSigmaFromThree(bars) ==
    IF Len(bars) < 3 THEN Null
    ELSE LET rets == Returns(bars, 2)
         IN  IF Len(rets) = 0 \/ \E i \in 1..Len(rets) : rets[i].kind # "number" THEN NaN
             ELSE Number(Sqrt(Variance([i \in 1..Len(rets) |-> rets[i].value])))

realisedSigmaFromBars(bars) ==
    IF Len(bars) < 2 THEN Null
    ELSE LET rets == Returns(bars, 2)
         IN  \* no return: 0 / 0
             IF Len(rets) = 0 THEN NaN
             \* a return of -Infinity or NaN: the mean is not finite, and
             \* x - mu is NaN for that return
             ELSE IF \E i \in 1..Len(rets) : rets[i].kind # "number" THEN NaN
             ELSE Number(Sqrt(Variance([i \in 1..Len(rets) |-> rets[i].value])))

\* a lookup that finds nothing is <<>>, one that finds bar b is <<b>>
\* new Map(bars.map(bar => [bar.t, bar])).get(t): the last bar with that t
barMapGet(bars, t) ==
    LET I == {i \in DOMAIN bars : bars[i].t = t}
    IN  IF I = {} THEN <<>> ELSE <<bars[CHOOSE i \in I : \A j \in I : j <= i]>>

\* bars.find(b => b.t >= t): the first such bar
find(bars, t) ==
    LET I == {i \in DOMAIN bars : bars[i].t >= t}
    IN  IF I = {} THEN <<>> ELSE <<bars[CHOOSE i \in I : \A j \in I : i <= j]>>

\* bars[bars.length - 1]
last(bars) == IF bars = <<>> THEN <<>> ELSE <<bars[Len(bars)]>>

\* a || b, for values that are an object or undefined
OrElse(a, b) == IF a # <<>> THEN a ELSE b

\* faulty variant: no exact match falls back to the last bar at once
LookupExactOrLast(bars, t) == OrElse(barMapGet(bars, t), last(bars))

\* barMap.get(t) || bars.find(b => b.t >= t) || bars[bars.length - 1]
Lookup(bars, t) == OrElse(barMapGet(bars, t), OrElse(find(bars, t), last(bars)))

priceRow(bars, startSec, sec) ==
    LET bar == Lookup(bars, startSec + sec)
    IN  [t_offset_s |-> sec,
         price |-> IF bar # <<>> THEN Number(bar[1].c) ELSE Null,
         volume |-> IF bar # <<>> THEN Number(bar[1].v) ELSE Null]

\* faulty variant: the grid stops one offset short
priceRowsShort(bars, startSec) ==
    [i \in 1..(Len(OFFSETS_S) - 1) |-> priceRow(bars, startSec, OFFSETS_S[i])]

\* OFFSETS_S.map(sec => ...)
priceRows(bars, startSec) ==
    [i \in 1..Len(OFFSETS_S) |-> priceRow(bars, startSec, OFFSETS_S[i])]

\* new ObjectId(id) throws unless id is a 24-digit hex string
ValidObjectId(id) == id # "zz"

ObjectId(id) == [oid |-> id]

\* the outcome of an awaited call: the collection after it, and whether the
\* promise was rejected
Fulfilled(coll) == [rejected |-> FALSE, prices |-> coll]

Rejected == [rejected |-> TRUE, prices |-> prices]

\* faulty variant: updateOne({signal_id}, ..., {upsert: true})
UpsertOne(doc, insertOk) ==
    IF ~insertOk THEN Rejected
    ELSE IF \E i \in DOMAIN prices : prices[i].signal_id = doc.signal_id
         THEN Fulfilled([i \in DOMAIN prices |->
                            IF prices[i].signal_id = doc.signal_id THEN doc ELSE prices[i]])
         ELSE Fulfilled(Append(prices, doc))

\* await mongo.prices.insertOne(doc)
InsertOne(doc, insertOk) ==
    IF insertOk THEN Fulfilled(Append(prices, doc)) ELSE Rejected

\* processJob(job): the collection it leaves, and whether its promise is
\* rejected.  queryOk, insertOk: whether the range query and the insert succeed
processJob(job, queryOk, insertOk) ==
    LET startSec == job.timestamp \div 1000
        endSec == startSec + WindowSecs
        key == SecKey(toLowerCase(job.symbol))
        rawBars == zrangebyscore(key, startSec, endSec)
        bars == [i \in 1..Len(rawBars) |-> Parse(rawBars[i])]
        sigma30m == realisedSigmaFromBars(bars)
        rows == priceRows(bars, startSec)
    IN  IF ~queryOk THEN Rejected
        ELSE IF ~ValidObjectId(job.id) THEN Rejected
        ELSE InsertOne([signal_id |-> ObjectId(job.id), symbol |-> job.symbol,
                        sigma_30m |-> sigma30m, prices |-> rows], insertOk)

\* try { await processJob(job) } catch (err) { console.error(...) }: the
\* handler's promise is fulfilled whether processJob's was or not
Handler(r) == [logged |-> r.rejected, rejected |-> FALSE]

\* BullMQ: a job whose handler rejects is failed, any other is completed
Settled(h) == IF h.rejected THEN "failed" ELSE "completed"

\* one delivery of a bitget_price job to the worker
priceWorker(job, queryOk, insertOk) ==
    LET r == processJob(job, queryOk, insertOk)
        h == Handler(r)
    IN  /\ Len(jobs) < MaxJobs
        /\ prices' = r.prices
        /\ jobs' = Append(jobs, [data |-> job, queryOk |-> queryOk,
                                 logged |-> h.logged, settled |-> Settled(h)])
        /\ UNCHANGED <<redis, aggVars, wsVars, rest>>

-----------------------------------------------------------------------------
(* restGET (src/restHelper.js)                                             *)

\* the largest maxRetries a call is made with
MaxRetriesBound == 3

\* maxRetries of the calls: -1 is a caller's mistake, the others retry 0 to
\* MaxRetriesBound times
RetryInputs == -1..MaxRetriesBound

\* how axios(config) settles: fulfilled with a response of some status, or
\* rejected (network error, timeout, status outside 2xx)
AxiosOutcomes ==
    {[threw |-> FALSE, status |-> 200], [threw |-> FALSE, status |-> 204],
     [threw |-> FALSE, status |-> 304], [threw |-> TRUE, status |-> 0]}

\* no call was made
RestIdle ==
    [pc |-> "idle", maxRetries |-> 0, attempt |-> 0, requests |-> <<>>,
     delays |-> <<>>, returned |-> "nothing"]

\* restGET(config, maxRetries) was called: attempt = 0, at the top of the loop
RestCalled(maxRetries) ==
    [pc |-> "while", maxRetries |-> maxRetries, attempt |-> 0, requests |-> <<>>,
     delays |-> <<>>, returned |-> "nothing"]

\* faulty variant: the last retry is not made
WhileConditionStrict(attempt, maxRetries) == attempt < maxRetries

\* while (attempt <= maxRetries)
WhileCondition(attempt, maxRetries) == attempt <= maxRetries

\* the loop is entered and axios(config) is called
restRequest ==
    /\ rest.pc = "while"
    /\ WhileCondition(rest.attempt, rest.maxRetries)
    /\ rest' = [rest EXCEPT !.pc = "await axios"]
    /\ UNCHANGED <<aggVars, wsVars, samplerVars>>

\* the loop condition is false: the function ends without a return statement
restFallOff ==
    /\ rest.pc = "while"
    /\ ~WhileCondition(rest.attempt, rest.maxRetries)
    /\ rest' = [rest EXCEPT !.pc = "returned", !.returned = "undefined"]
    /\ UNCHANGED <<aggVars, wsVars, samplerVars>>

\* axios(config) settles with outcome o: the rest of the loop body up to the
\* next await or return
restSettled(o) ==
    LET attempt == rest.attempt + 1
        requests == Append(rest.requests, o)
    IN  /\ rest.pc = "await axios"
        /\ rest' =
              IF ~o.threw /\ o.status = 200
              THEN [rest EXCEPT !.pc = "returned", !.requests = requests,
                                !.returned = "response"]
              ELSE IF attempt > rest.maxRetries
              THEN [rest EXCEPT !.pc = "returned", !.requests = requests,
                                !.attempt = attempt, !.returned = "null"]
              ELSE [rest EXCEPT !.pc = "await delay", !.requests = requests,
                                !.attempt = attempt,
                                !.delays = Append(rest.delays, attempt)]
        /\ UNCHANGED <<aggVars, wsVars, samplerVars>>

\* the backoff timer fires: back to the top of the loop
restDelayed ==
    /\ rest.pc = "await delay"
    /\ rest' = [rest EXCEPT !.pc = "while"]
    /\ UNCHANGED <<aggVars, wsVars, samplerVars>>

-----------------------------------------------------------------------------
(* Specifications                                                          *)

InitAgg ==
    /\ buffers = [k \in {} |-> NewBuf]
    /\ zadds = <<>>
    /\ lost = <<>>
    /\ trades = <<>>

InitWS ==
    /\ ws = <<>>
    /\ sockets = <<>>
    /\ pingTimers = NoTimers
    /\ intervals = {}
    /\ timeouts = {}
    /\ out = <<>>
    /\ exited = FALSE
    /\ lastShards = <<>>

InitSampler ==
    /\ redis = [k \in {} |-> {}]
    /\ prices = <<>>
    /\ jobs = <<>>

InitRest == rest = RestIdle

Init == InitAgg /\ InitWS /\ InitSampler /\ InitRest

\* the aggregator, fed trades
Next == \E tr \in TradeInputs : processTrade(tr.symbol, tr.price, tr.volume, tr.ms)

Spec == Init /\ [][Next]_vars

\* the adapter, driven by its caller, its sockets and its timers
NextWS ==
    \/ disconnect
    \/ stop
    \/ \E channels \in ChannelLists : connect(channels)
    \/ \E w \in 1..Len(ws) : onOpen(w)
    \/ \E w \in 1..Len(ws) : onClose(w)
    \/ \E t \in timeouts : respawn(t)

SpecWS == Init /\ [][NextWS]_vars

\* timers fire: a pending respawn is eventually run
SpecWSFair == SpecWS /\ WF_vars(\E t \in timeouts : respawn(t))

\* the adapter, its sockets also delivering frames
NextWSMsg ==
    \/ NextWS
    \/ \E w \in 1..Len(ws), str \in Frames : onMessage(w, str)

SpecWSMsg == Init /\ [][NextWSMsg]_vars

\* the aggregator, fed trades while Redis accepts or rejects each transaction
NextExec ==
    \E tr \in ExecTradeInputs, secOk \in BOOLEAN, minOk \in BOOLEAN :
        processTradeExec(tr.symbol, tr.price, tr.volume, tr.ms, secOk, minOk)

SpecExec == Init /\ [][NextExec]_vars

\* one call of restGET, for each maxRetries of the inputs
InitCall ==
    /\ InitAgg
    /\ InitWS
    /\ InitSampler
    /\ \E maxRetries \in RetryInputs : rest = RestCalled(maxRetries)

NextRest ==
    \/ restRequest
    \/ restFallOff
    \/ \E o \in AxiosOutcomes : restSettled(o)
    \/ restDelayed

SpecRest == InitCall /\ [][NextRest]_vars

\* every request settles and every timer fires
SpecRestFair == SpecRest /\ WF_vars(NextRest)

\* the price worker, given a store of bars and fed deliveries
InitStore ==
    /\ InitAgg
    /\ InitWS
    /\ \E bars \in Stores : redis = [k \in {SecKey("btcusdt")} |-> SortedSet(bars)]
    /\ prices = <<>>
    /\ jobs = <<>>
    /\ InitRest

NextSampler ==
    \E job \in JobInputs, queryOk \in BOOLEAN, insertOk \in BOOLEAN :
        priceWorker(job, queryOk, insertOk)

SpecSampler == InitStore /\ [][NextSampler]_vars

-----------------------------------------------------------------------------
(* Vocabulary of the aggregator's properties                               *)

FineBucket(ms) == ms \div 1000

CoarseBucket(ms) == ms \div 60000

\* the trades processed so far for the instrument keyed sym
TradesOf(sym) == SelectSeq(trades, LAMBDA t : toLowerCase(t.symbol) = sym)

RECURSIVE SumVolumes(_)
SumVolumes(ts) == IF ts = <<>> THEN 0 ELSE ts[1].volume + SumVolumes(Tail(ts))

PricesOf(ts) == {ts[i].price : i \in 1..Len(ts)}

IsMax(x, S) == x \in S /\ \A y \in S : y <= x

IsMin(x, S) == x \in S /\ \A y \in S : x <= y

OneFineBucket(ts) == \A i \in 1..Len(ts) : FineBucket(ts[i].ms) = FineBucket(ts[1].ms)

IsFine(z) == z.key[1] = "bitget:secbar:"

IsCoarse(z) == z.key[1] = "bitget:minbar:"

\* the transactions issued by the step
Issued == SubSeq(zadds', Len(zadds) + 1, Len(zadds'))

FineIssued == SelectSeq(Issued, IsFine)

CoarseIssued == SelectSeq(Issued, IsCoarse)

\* the step is a processTrade call; its trade and the key of its instrument
TradeStep == Len(trades') = Len(trades) + 1

StepTrade == trades'[Len(trades')]

StepSym == toLowerCase(StepTrade.symbol)

\* the instrument of the step had an accumulator before the step
HadBuf == StepSym \in DOMAIN buffers

-----------------------------------------------------------------------------
(* C1: as long as all trades of an instrument fall in one fine bucket, its  *)
(* open fine accumulator has open = the first trade's price, close = the    *)
(* last trade's price by arrival, high = the maximum price, low = the       *)
(* minimum price and volume = the sum of the trade volumes.                 *)
C1_SingleBucketOHLCV ==
    \A sym \in DOMAIN buffers :
        LET ts == TradesOf(sym)
            b == buffers[sym]
        IN  OneFineBucket(ts) =>
                /\ Len(ts) > 0
                /\ b.secBucketTS = FineBucket(ts[1].ms)
                /\ b.secOpen = ts[1].price
                /\ b.secClose = ts[Len(ts)].price
                /\ IsMax(b.secHigh, PricesOf(ts))
                /\ IsMin(b.secLow, PricesOf(ts))
                /\ b.secVol = SumVolumes(ts)

\* three trades in one fine bucket, the high above the close, volume adding up
C1_Witness ==
    \E sym \in DOMAIN buffers :
        LET ts == TradesOf(sym)
        IN  /\ Len(ts) >= 3
            /\ OneFineBucket(ts)
            /\ buffers[sym].secHigh > buffers[sym].secClose
            /\ buffers[sym].secLow < buffers[sym].secOpen
            /\ buffers[sym].secVol >= 2

(* C2: a trade whose fine bucket differs from the open fine bucket of its   *)
(* instrument writes exactly one fine bar, with the bucketStart and         *)
(* O/H/L/C/V of the bucket that was open, and leaves the fine accumulator   *)
(* seeded from that trade alone; a trade in the open fine bucket (or the    *)
(* first trade of an instrument) writes no fine bar.                        *)
C2_FineFlush ==
    [][TradeStep =>
        LET tr == StepTrade
            new == buffers'[StepSym]
        IN  IF HadBuf /\ FineBucket(tr.ms) # buffers[StepSym].secBucketTS
            THEN LET old == buffers[StepSym]
                 IN  /\ Len(FineIssued) = 1
                     /\ FineIssued[1].key = <<"bitget:secbar:", StepSym>>
                     /\ FineIssued[1].score = old.secBucketTS
                     /\ FineIssued[1].member =
                            <<old.secBucketTS, old.secOpen, old.secHigh,
                              old.secLow, old.secClose, old.secVol>>
                     /\ new.secBucketTS = FineBucket(tr.ms)
                     /\ new.secOpen = tr.price /\ new.secHigh = tr.price
                     /\ new.secLow = tr.price /\ new.secClose = tr.price
                     /\ new.secVol = tr.volume
            ELSE FineIssued = <<>>]_vars

\* a fine bar built from several trades was written, and the bucket open now
\* holds a single trade
C2_Witness ==
    \E i \in 1..Len(zadds) :
        /\ IsFine(zadds[i])
        /\ zadds[i].member[3] > zadds[i].member[4]
        /\ zadds[i].member[6] >= 1
        /\ Len(trades) = 3
        /\ buffers[zadds[i].key[2]].secBucketTS = FineBucket(trades[3].ms)
        /\ buffers[zadds[i].key[2]].secBucketTS # zadds[i].score

(* C3: a coarse bar is written only by a trade whose fine bucket is         *)
(* divisible by 60 and whose coarse bucket differs from the open coarse     *)
(* bucket, and then exactly one; with a coarse bucket open, a trade at fine *)
(* bucket 119 or 121 writes none, and a trade at fine bucket 120 arriving   *)
(* with coarse bucket 1 open writes exactly one.                            *)
C3_CoarseGate ==
    [][TradeStep =>
        LET tr == StepTrade
        IN  /\ Len(CoarseIssued) <= 1
            /\ CoarseIssued # <<>> =>
                  /\ FineBucket(tr.ms) % 60 = 0
                  /\ HadBuf
                  /\ CoarseBucket(tr.ms) # buffers[StepSym].minBucketTS
            /\ (HadBuf /\ FineBucket(tr.ms) \in {119, 121}) => CoarseIssued = <<>>
            /\ (HadBuf /\ buffers[StepSym].minBucketTS = 1 /\ FineBucket(tr.ms) = 120) =>
                  Len(CoarseIssued) = 1]_vars

\* trades at fine buckets 119, 121, 120: the only coarse bar is written by the third
C3_Witness ==
    /\ Len(trades) = 3
    /\ \A i \in 1..3 : trades[i].symbol = "BTCUSDT"
    /\ FineBucket(trades[1].ms) = 119
    /\ FineBucket(trades[2].ms) = 121
    /\ FineBucket(trades[3].ms) = 120
    /\ Len(SelectSeq(zadds, IsCoarse)) = 1
    /\ zadds[Len(zadds)].score = 1

(* C8: for every instrument and granularity, at most one bar is written per *)
(* bucketStart: two writes under one key never carry the same bucketStart   *)
(* with different contents.                                                 *)
C8_OneBarPerBucket ==
    \A i, j \in 1..Len(zadds) :
        (zadds[i].key = zadds[j].key /\ zadds[i].score = zadds[j].score)
            => zadds[i].member = zadds[j].member

(* C9 as stated: the bucketStart of every bar written is a multiple of the  *)
(* granularity in seconds: of 1 for a fine bar, of 60 for a coarse bar.     *)
C9_AlignedSeconds ==
    \A i \in 1..Len(zadds) :
        /\ IsFine(zadds[i]) => zadds[i].score % 1 = 0
        /\ IsCoarse(zadds[i]) => zadds[i].score % 60 = 0

(* C9 as amended: the bucketStart of every bar written is the bucket index  *)
(* of a processed trade of the instrument in units of the granularity: for  *)
(* a fine bar floor(eventTimeMs / 1000), the start in epoch seconds; for a  *)
(* coarse bar floor(eventTimeMs / 60000), the minute index, so that 60      *)
(* times the bucketStart is the start in epoch seconds.                     *)
C9_BucketIndex ==
    \A i \in 1..Len(zadds) :
        LET z == zadds[i]
            ts == TradesOf(z.key[2])
        IN  /\ z.member[1] = z.score
            /\ IsFine(z) => \E k \in 1..Len(ts) : z.score = FineBucket(ts[k].ms)
            /\ IsCoarse(z) =>
                  \E k \in 1..Len(ts) :
                      /\ z.score = CoarseBucket(ts[k].ms)
                      /\ 60 * z.score <= FineBucket(ts[k].ms)
                      /\ FineBucket(ts[k].ms) < 60 * (z.score + 1)

\* a fine and a coarse bar were written
C9_Witness ==
    /\ \E i \in 1..Len(zadds) : IsFine(zadds[i])
    /\ \E i \in 1..Len(zadds) : IsCoarse(zadds[i]) /\ zadds[i].score = 1

(* C10: every open accumulator and every bar written, fine or coarse, has   *)
(* high >= max(open, close) and low <= min(open, close), and volume >= 0    *)
(* when every trade volume is >= 0.                                         *)
C10_BarShape ==
    /\ \A sym \in DOMAIN buffers :
          LET b == buffers[sym]
          IN  /\ b.secHigh >= b.secOpen /\ b.secHigh >= b.secClose
              /\ b.secLow <= b.secOpen /\ b.secLow <= b.secClose
              /\ b.minHigh >= b.minOpen /\ b.minHigh >= b.minClose
              /\ b.minLow <= b.minOpen /\ b.minLow <= b.minClose
              /\ (\A k \in 1..Len(trades) : trades[k].volume >= 0)
                    => (b.secVol >= 0 /\ b.minVol >= 0)
    /\ \A i \in 1..Len(zadds) :
          LET m == zadds[i].member
          IN  /\ m[3] >= m[2] /\ m[3] >= m[5]
              /\ m[4] <= m[2] /\ m[4] <= m[5]
              /\ (\A k \in 1..Len(trades) : trades[k].volume >= 0) => m[6] >= 0

\* a coarse bar with its high strictly above open and close was written, and
\* an accumulator is open
C10_Witness ==
    /\ \E i \in 1..Len(zadds) :
          /\ IsCoarse(zadds[i])
          /\ zadds[i].member[3] > zadds[i].member[2]
          /\ zadds[i].member[3] > zadds[i].member[5]
    /\ \E sym \in DOMAIN buffers : buffers[sym].minVol >= 0

-----------------------------------------------------------------------------
(* Vocabulary of the adapter's properties                                  *)

\* the channels of a list that have a mapping, in order, each mapped
Mapped(channels) ==
    LET kept == SelectSeq(channels, LAMBDA ch : mapChannelToArg(ch) # NullArg)
    IN  [i \in 1..Len(kept) |-> mapChannelToArg(kept[i])]

\* the shards of the sockets lo..hi, concatenated in order
RECURSIVE Shards(_, _, _)
Shards(socks, lo, hi) ==
    IF lo > hi THEN <<>> ELSE socks[lo].argChunk \o Shards(socks, lo + 1, hi)

CeilDiv(n, d) == (n + d - 1) \div d

Live(w) == ws[w].readyState \in {"CONNECTING", "OPEN"}

\* the sockets spawned to replace socket p, and the respawns of p still waiting
Replacements(p) == {c \in 1..Len(ws) : ws[c].parent = p}

Waiting(p) == {t \in timeouts : t.from = p}

\* the "close" listener of socket p ran
ClosedByEvent(p) == p \in 1..Len(ws) /\ ws[p].readyState = "CLOSED"

(* C4: connect(streams) drops the streams without a mapping, splits the N   *)
(* mapped descriptors in order into consecutive shards of at most 50, and   *)
(* spawns exactly ceil(N/50) sessions, one per shard, the shards together   *)
(* holding every mapped descriptor once (120 give 50, 50, 20); no session   *)
(* when N = 0.                                                              *)
C4_ConnectShards ==
    [][\A channels \in ChannelLists : connect(channels) =>
        LET args == Mapped(channels)
            n == Len(args)
            k == CeilDiv(n, 50)
        IN  /\ Len(ws') = Len(ws) + k
            /\ sockets' = [i \in 1..k |-> Len(ws) + i]
            /\ \A w \in (Len(ws) + 1)..Len(ws') :
                  /\ Len(ws'[w].argChunk) \in 1..50
                  /\ ws'[w].readyState = "CONNECTING"
            /\ Shards(ws', Len(ws) + 1, Len(ws')) = args
            /\ n = 0 => ws' = DisconnectResult(AdapterState).ws
            /\ n = 120 => /\ Len(ws'[Len(ws) + 1].argChunk) = 50
                          /\ Len(ws'[Len(ws) + 2].argChunk) = 50
                          /\ Len(ws'[Len(ws) + 3].argChunk) = 20]_vars

\* three sessions just spawned with shards of 50, 50 and 20 descriptors
C4_Witness ==
    /\ Len(sockets) = 3
    /\ \A i \in 1..3 : ws[sockets[i]].readyState = "CONNECTING"
    /\ Len(ws[sockets[1]].argChunk) = 50
    /\ Len(ws[sockets[2]].argChunk) = 50
    /\ Len(ws[sockets[3]].argChunk) = 20
    /\ out = <<Emit("disconnected")>>

(* C5: a session whose close listener ran (it closed from Connecting or     *)
(* Open, not by disconnect()) gets exactly one replacement: one respawn is  *)
(* waiting or one session was spawned for it, never both and never two; the *)
(* replacement has the same descriptors in the same order; and while the    *)
(* process lives the replacement is eventually spawned. So every session    *)
(* has the shard of the session of connect() it descends from.              *)
C5_RespawnSameShard ==
    /\ [](\A p \in 1..Len(ws) :
            /\ Cardinality(Replacements(p)) + Cardinality(Waiting(p))
                   = IF ClosedByEvent(p) THEN 1 ELSE 0
            /\ \A c \in Replacements(p) : ws[c].argChunk = ws[p].argChunk
            /\ \A t \in Waiting(p) : t.argChunk = ws[p].argChunk)
    /\ \A p \in 1..MaxSockets :
          ClosedByEvent(p) ~> (exited \/ Replacements(p) # {})

\* a replacement of a replacement is live: two successive closes of one shard
C5_Witness ==
    \E c \in 1..Len(ws) :
        /\ ws[c].parent # 0
        /\ ws[ws[c].parent].parent # 0
        /\ Live(c)
        /\ Len(ws[c].argChunk) = 3

(* C6: after disconnect() no timer of the adapter is pending and no session *)
(* is spawned until connect() is called again.                              *)
C6_NoTimerAfterDisconnect ==
    [][/\ disconnect => (intervals' = {} /\ timeouts' = {})
       /\ (sockets = <<>> /\ Len(ws') > Len(ws)) =>
              \E channels \in ChannelLists : connect(channels)]_vars

(* C7: disconnect() is idempotent: after it every tracked session is        *)
(* closed, the heartbeat timer of every tracked session is cancelled, and   *)
(* the session list and the timer map are empty; a second disconnect() in   *)
(* that state changes nothing of the adapter and closes nothing.            *)
C7_DisconnectIdempotent ==
    [][disconnect =>
        /\ sockets' = <<>>
        /\ pingTimers' = NoTimers
        /\ \A i \in 1..Len(sockets) :
              /\ ws'[sockets[i]].readyState \in {"CLOSING", "CLOSED"}
              /\ sockets[i] \in DOMAIN pingTimers =>
                    pingTimers[sockets[i]] \notin intervals'
        /\ DisconnectResult(AdapterState') = AdapterState']_vars

\* disconnect() ran on an open session with its heartbeat timer, which is
\* closing now with its timer cancelled
C7_Witness ==
    /\ out = <<Emit("disconnected")>>
    /\ ~exited
    /\ sockets = <<>>
    /\ intervals = {}
    /\ \E w \in 1..Len(ws) : ws[w].readyState = "CLOSING" /\ Len(ws[w].argChunk) = 20

-----------------------------------------------------------------------------
(* Properties of the aggregator under rejected writes and deferred flushes *)

\* the coarse accumulator of buf
CoarsePart(buf) ==
    <<buf.minBucketTS, buf.minOpen, buf.minHigh, buf.minLow, buf.minClose, buf.minVol>>

\* the fine accumulator of buf
FinePart(buf) ==
    <<buf.secBucketTS, buf.secOpen, buf.secHigh, buf.secLow, buf.secClose, buf.secVol>>

\* the trades so far arrived in the order of their fine buckets
InOrder == \A i \in 1..(Len(trades) - 1) : trades[i].ms \div 1000 <= trades[i + 1].ms \div 1000

\* C15: a rejected write changes nothing but the log: whatever Redis answers,
\* every trade leaves the accumulator as an accepted write would, a trade that
\* completes a bar leaves the new bucket seeded from that trade alone, and a
\* step issues nothing but the bar of the accumulator it found, at most once
\* per granularity; with trades arriving in bucket order no bar, rejected or
\* not, is issued a second time.
C15_LostWriteDropped ==
    /\ [](InOrder => \A i, k \in DOMAIN zadds : zadds[i] = zadds[k] => i = k)
    /\ [][TradeStep =>
            LET tr == StepTrade
                old == BufOf(buffers, StepSym)
                new == buffers'[StepSym]
                s == SecondBarLogic(StepSym, old, FineBucket(tr.ms), tr.price, tr.volume)
                m == MinuteBarLogic(StepSym, s.buf, FineBucket(tr.ms), CoarseBucket(tr.ms),
                                    tr.price, tr.volume)
            IN  /\ new = m.buf
                /\ Len(FineIssued) <= 1 /\ Len(CoarseIssued) <= 1
                /\ FineIssued # <<>> =>
                      /\ FineIssued[1].member = FinePart(old)
                      /\ FinePart(new) = <<FineBucket(tr.ms), tr.price, tr.price, tr.price,
                                           tr.price, tr.volume>>
                /\ CoarseIssued # <<>> =>
                      /\ CoarseIssued[1].member = CoarsePart(old)
                      /\ CoarsePart(new) = <<CoarseBucket(tr.ms), tr.price, tr.price,
                                             tr.price, tr.price, tr.volume>>
                /\ \E n \in 0..Len(Issued) :
                      /\ Len(lost') = Len(lost) + n
                      /\ SubSeq(lost', 1, Len(lost)) = lost
                      /\ \A i \in 1..n : \E k \in 1..Len(Issued) :
                            lost'[Len(lost) + i] = Issued[k]]_vars

\* the write of the bar of second 119 was rejected; two more trades were
\* processed since, in bucket order, and the bar of second 120 was written
C15_Witness ==
    /\ Len(trades) = 3
    /\ InOrder
    /\ Len(lost) = 1
    /\ lost[1] = zadds[1]
    /\ zadds[1].score = 119
    /\ \E i \in 2..Len(zadds) : IsFine(zadds[i]) /\ zadds[i].score = 120
    /\ buffers["btcusdt"].secBucketTS = 180

\* C18: a trade of another minute than the open one whose second is no
\* multiple of 60 leaves the coarse accumulator as it is and writes no coarse
\* bar; a trade of another minute whose second is a multiple of 60 writes
\* exactly one coarse bar, start and O/H/L/C/V of the open minute, and leaves
\* the coarse accumulator seeded from that trade alone.
C18_DeferredCoarseFlush ==
    [][(TradeStep /\ HadBuf) =>
        LET tr == StepTrade
            old == buffers[StepSym]
            new == buffers'[StepSym]
        IN  CoarseBucket(tr.ms) # old.minBucketTS =>
                IF FineBucket(tr.ms) % 60 # 0
                THEN /\ CoarsePart(new) = CoarsePart(old)
                     /\ CoarseIssued = <<>>
                ELSE /\ Len(CoarseIssued) = 1
                     /\ CoarseIssued[1].key = <<"bitget:minbar:", StepSym>>
                     /\ CoarseIssued[1].score = old.minBucketTS
                     /\ CoarseIssued[1].member = CoarsePart(old)
                     /\ CoarsePart(new) = <<CoarseBucket(tr.ms), tr.price, tr.price,
                                            tr.price, tr.price, tr.volume>>]_vars

\* minute 1 got trades at prices 1 and 2; a trade of minute 2 at second 121
\* changed nothing; the trade at second 120 then wrote the bar of minute 1
\* and opened minute 2 with its own price and volume
C18_Witness ==
    /\ Len(trades) = 4
    /\ \A i \in 1..4 : trades[i].symbol = "BTCUSDT"
    /\ <<trades[1].ms, trades[2].ms, trades[3].ms, trades[4].ms>>
           = <<119500, 119500, 121999, 120000>>
    /\ <<trades[1].price, trades[2].price, trades[3].price, trades[4].price>> = <<1, 2, 2, 1>>
    /\ \A i \in 1..4 : trades[i].volume = 1
    /\ Len(SelectSeq(zadds, IsCoarse)) = 1
    /\ zadds[Len(zadds)].member = <<1, 1, 2, 1, 2, 2>>
    /\ CoarsePart(buffers["btcusdt"]) = <<2, 1, 1, 1, 1, 1>>

\* the coarse bars written so far for the instrument keyed sym
CoarseBarsOf(sym) ==
    SelectSeq(zadds, LAMBDA z : z.key = <<"bitget:minbar:", sym>>)

\* the volumes of the bars zs, added up (the volume is the last field of a bar)
RECURSIVE SumBarVolumes(_)
SumBarVolumes(zs) ==
    IF zs = <<>> THEN 0 ELSE Head(zs).member[6] + SumBarVolumes(Tail(zs))

NonDecreasing(ts) == \A i \in 1..(Len(ts) - 1) : ts[i].ms <= ts[i + 1].ms

\* C23: for an instrument whose trades arrived with non-decreasing event
\* times, the volumes of its coarse bars written plus the volume of its open
\* coarse accumulator add up to the volumes of its trades.
C23_CoarseVolumeConserved ==
    \A sym \in DOMAIN buffers :
        NonDecreasing(TradesOf(sym)) =>
            SumBarVolumes(CoarseBarsOf(sym)) + buffers[sym].minVol
                = SumVolumes(TradesOf(sym))

-----------------------------------------------------------------------------
(* Properties of the adapter's message listener                            *)

Sends(o) == SelectSeq(o, LAMBDA e : e.kind = "send")

Emits(o, name) == SelectSeq(o, LAMBDA e : e.kind = "emit" /\ e.name = name)

\* the step closed no session, cancelled no heartbeat timer and scheduled no
\* reconnect
SessionsUntouched ==
    /\ ws' = ws
    /\ sockets' = sockets
    /\ pingTimers' = pingTimers
    /\ intervals' = intervals
    /\ timeouts' = timeouts

\* C16: on an open session, "ping" makes the listener send exactly one "pong",
\* on that session, and emit nothing; "pong" makes it send and emit nothing;
\* the session stays open.
C16_Heartbeat ==
    [][\A w \in 1..Len(ws) :
          /\ onMessage(w, PingFrame) =>
                /\ Len(out') = 1
                /\ out'[1].kind = "send" /\ out'[1].name = "pong" /\ out'[1].ws = w
                /\ ws'[w].readyState = "OPEN"
          /\ onMessage(w, PongFrame) =>
                /\ out' = <<>>
                /\ ws'[w].readyState = "OPEN"]_vars

\* the second of two open sessions answered a server heartbeat
C16_Witness ==
    /\ Len(out) = 1
    /\ out[1].kind = "send" /\ out[1].name = "pong" /\ out[1].ws = 2
    /\ ws[1].readyState = "OPEN" /\ ws[2].readyState = "OPEN"
    /\ ws[1].listeners /\ ws[2].listeners

\* C17: a frame with a non-zero retCode makes the listener emit neither
\* "message" nor "error"; a text that is no JSON makes it emit "error" once and
\* no "message"; neither closes the session, cancels its heartbeat timer or
\* schedules a reconnect; a push received after such a frame is translated as
\* any other.
C17_BadFramesHarmless ==
    [][\A w \in 1..Len(ws) :
          /\ onMessage(w, RetCodeFrame) =>
                /\ Emits(out', "message") = <<>>
                /\ Emits(out', "error") = <<>>
                /\ SessionsUntouched
          /\ onMessage(w, BrokenFrame) =>
                /\ Len(Emits(out', "error")) = 1
                /\ Emits(out', "message") = <<>>
                /\ SessionsUntouched
          /\ ((out = <<>> \/ Len(Emits(out, "error")) = 1) /\ onMessage(w, TradeFrame)) =>
                /\ Len(out') = 2
                /\ Len(Emits(out', "message")) = 2
                /\ out'[1].args[1] = <<"stream", <<"btcusdt", "@aggTrade">>, "data",
                                        "p", "1", "q", "1", "E", 119500, "m", TRUE>>
                /\ out'[2].args[1] = <<"stream", <<"btcusdt", "@aggTrade">>, "data",
                                        "p", "2", "q", "1", "E", 120000, "m", FALSE>>]_vars

\* a session with a running heartbeat timer got a text that is no JSON: one
\* "error" event, the session open, its timer running
C17_Witness ==
    /\ Len(out) = 1
    /\ out[1].kind = "emit" /\ out[1].name = "error"
    /\ \E w \in 1..Len(ws) :
          /\ ws[w].readyState = "OPEN"
          /\ ws[w].listeners
          /\ w \in DOMAIN pingTimers
          /\ pingTimers[w] \in intervals

-----------------------------------------------------------------------------
(* Properties of the adapter's sessions                                    *)

IsSubscribe(e) == e.kind = "send" /\ e.name = "subscribe"

\* the argument lists of the frames fs, concatenated in order
RECURSIVE ConcatArgs(_)
ConcatArgs(fs) == IF fs = <<>> THEN <<>> ELSE Head(fs).args \o ConcatArgs(Tail(fs))

\* C21: a session that opens with a shard of k descriptors sends exactly
\* ceil(k/20) subscribe frames on itself, each with 1 to 20 descriptors, that
\* concatenated in send order are the shard, and emits "open" after the last
\* of them; no subscribe frame is ever sent but by a session at its opening.
C21_SubscribeBatches ==
    [][/\ \A w \in 1..Len(ws) : onOpen(w) =>
              LET shard == ws[w].argChunk
                  subs == SelectSeq(out', IsSubscribe)
              IN  /\ Len(subs) = CeilDiv(Len(shard), 20)
                  /\ \A i \in 1..Len(subs) :
                        /\ Len(subs[i].args) \in 1..20
                        /\ subs[i].ws = w
                        /\ out'[i] = subs[i]
                  /\ ConcatArgs(subs) = shard
                  /\ Len(out') = Len(subs) + 1
                  /\ out'[Len(out')].kind = "emit" /\ out'[Len(out')].name = "open"
       /\ \A i \in 1..Len(out') : IsSubscribe(out'[i]) =>
              /\ out'[i].ws \in 1..Len(ws)
              /\ ws[out'[i].ws].readyState = "CONNECTING"
              /\ ws'[out'[i].ws].readyState = "OPEN"]_vars

\* a session with a shard of 50 opened: frames of 20, 20 and 10, then "open";
\* another session is still connecting
C21_Witness ==
    /\ Len(out) = 4
    /\ \A i \in 1..3 : IsSubscribe(out[i]) /\ out[i].ws = out[1].ws
    /\ <<Len(out[1].args), Len(out[2].args), Len(out[3].args)>> = <<20, 20, 10>>
    /\ out[4].kind = "emit" /\ out[4].name = "open"
    /\ ws[out[1].ws].readyState = "OPEN"
    /\ \E w \in 1..Len(ws) : ws[w].readyState = "CONNECTING" /\ ws[w].listeners

\* C22: a heartbeat timer is active exactly for the sessions that are open:
\* no connecting session, no session that closed and none that disconnect()
\* closed has one, every open session has its own, recorded in the timer map.
C22_TimerOnlyWhenOpen ==
    /\ \A t \in intervals : t \in 1..Len(ws) /\ ws[t].readyState = "OPEN"
    /\ \A w \in 1..Len(ws) :
          ws[w].readyState = "OPEN" =>
              /\ w \in DOMAIN pingTimers
              /\ pingTimers[w] = w
              /\ pingTimers[w] \in intervals
    /\ \A w \in DOMAIN pingTimers : pingTimers[w] \in intervals

\* an open session with its timer beside a session that closed after it had
\* opened, one closed by disconnect() and one still connecting
C22_Witness ==
    /\ \E w \in 1..Len(ws) : ws[w].readyState = "OPEN" /\ w \in intervals
    /\ \E w \in 1..Len(ws) : ws[w].readyState = "CLOSED" /\ w \notin intervals
    /\ \E w \in 1..Len(ws) : ws[w].readyState = "CLOSING" /\ w \notin intervals
    /\ \E w \in 1..Len(ws) : ws[w].readyState = "CONNECTING" /\ w \notin intervals
    /\ Cardinality(intervals) = 1

\* the sessions that are connecting or open
LiveSessions == {w \in 1..Len(ws) : Live(w)}

\* C24: every live session has a shard computed by the latest connect(), and
\* no two live sessions have the same shard.
C24_OneLivePerShard ==
    /\ \A w \in LiveSessions : \E k \in 1..Len(lastShards) : ws[w].argChunk = lastShards[k]
    /\ \A k \in 1..Len(lastShards) :
          Cardinality({w \in LiveSessions : ws[w].argChunk = lastShards[k]}) <= 1

\* C25: the tracked sessions are all connecting or open, and there are no
\* more of them than shards computed by the latest connect().
C25_TrackedAreLive ==
    /\ \A i \in 1..Len(sockets) : Live(sockets[i])
    /\ Len(sockets) <= Len(lastShards)

-----------------------------------------------------------------------------
(* Properties of restGET                                                   *)

Answered200(o) == ~o.threw /\ o.status = 200

\* C26: a call with maxRetries >= 0 ends, after at most maxRetries + 1
\* requests; it returns the response of the first request answered with 200,
\* and makes no request after it; it returns null when maxRetries + 1
\* requests failed or were answered otherwise; it returns nothing else and
\* throws nothing; it waited once after each request but the last.
C26_RestGetTerminates ==
    /\ [](rest.maxRetries >= 0 /\ rest.pc # "idle" =>
            /\ Len(rest.requests) <= rest.maxRetries + 1
            /\ \A i \in 1..(Len(rest.requests) - 1) : ~Answered200(rest.requests[i])
            /\ rest.pc = "returned" <=> rest.returned # "nothing"
            /\ rest.returned \in {"nothing", "response", "null"}
            /\ rest.returned = "response" <=>
                  (rest.requests # <<>> /\ Answered200(rest.requests[Len(rest.requests)]))
            /\ rest.returned = "null" =>
                  /\ Len(rest.requests) = rest.maxRetries + 1
                  /\ \A i \in 1..Len(rest.requests) : ~Answered200(rest.requests[i])
            /\ rest.pc = "returned" => Len(rest.delays) = Len(rest.requests) - 1
            /\ rest.pc = "await delay" =>
                  /\ Len(rest.delays) = Len(rest.requests)
                  /\ Len(rest.requests) <= rest.maxRetries
            /\ rest.pc \in {"while", "await axios"} =>
                  Len(rest.delays) = Len(rest.requests))
    /\ (rest.maxRetries >= 0 /\ rest.pc # "idle") ~> rest.pc = "returned"

\* maxRetries = 2: two requests failed, each followed by a wait, and the
\* third was answered with 200
C26_Witness ==
    /\ rest.maxRetries = 2
    /\ rest.returned = "response"
    /\ Len(rest.requests) = 3
    /\ rest.requests[1].threw /\ rest.requests[2].status = 204
    /\ rest.delays = <<1, 2>>

-----------------------------------------------------------------------------
(* Vocabulary of the price worker's properties                             *)

Docs == {prices[i] : i \in DOMAIN prices}

\* the job a document was computed for
JobOf(doc) == CHOOSE j \in JobInputs : j.id = doc.signal_id.oid

\* the second a signal falls in
StartOf(job) == job.timestamp \div 1000

\* the stored bars of the job's instrument whose bucket start lies in the
\* window of 1800 seconds from the signal
Fetched(job) ==
    LET key == <<"bitget:secbar:", toLowerCase(job.symbol)>>
        S == IF key \in DOMAIN redis THEN redis[key] ELSE {}
    IN  {Parse(x.member) :
            x \in {y \in S : StartOf(job) <= y.score /\ y.score <= StartOf(job) + 1800}}

BarTimes(B) == {b.t : b \in B}

\* the bucket start the three-tier lookup resolves target to, B not empty
ResolvedTime(B, target) ==
    IF target \in BarTimes(B) THEN target
    ELSE IF \E t \in BarTimes(B) : t >= target
         THEN CHOOSE t \in BarTimes(B) : t >= target /\ \A u \in BarTimes(B) : u >= target => t <= u
         ELSE CHOOSE t \in BarTimes(B) : \A u \in BarTimes(B) : u <= t

OffsetsOf(doc) == [i \in DOMAIN doc.prices |-> doc.prices[i].t_offset_s]

\* the delivery a step hands to the worker
Delivery == Len(jobs') = Len(jobs) + 1

Delivered == jobs'[Len(jobs')]

\* the deliveries of job j so far whose processing succeeded
Succeeded(j) == {i \in DOMAIN jobs : jobs[i].data = j /\ ~jobs[i].logged}

\* the consecutive pairs of B, by bucket start, whose earlier close is positive
UsedPairs(B) ==
    {p \in B \X B :
        /\ p[1].t < p[2].t
        /\ ~\E b \in B : p[1].t < b.t /\ b.t < p[2].t
        /\ p[1].c > 0}

\* 1000 * ln(later close / earlier close) of a pair of positive closes
PairReturn(p) == (IF p[2].c = 2 THEN 693 ELSE 0) - (IF p[1].c = 2 THEN 693 ELSE 0)

RECURSIVE SumReturns(_)
SumReturns(P) ==
    IF P = {} THEN 0
    ELSE LET p == CHOOSE p \in P : TRUE IN PairReturn(p) + SumReturns(P \ {p})

RECURSIVE SumSquares(_)
SumSquares(P) ==
    IF P = {} THEN 0
    ELSE LET p == CHOOSE p \in P : TRUE
         IN  PairReturn(p) * PairReturn(p) + SumSquares(P \ {p})

\* v is the population standard deviation of the returns of P, rounded down:
\* the variance is (n * sum of squares - square of sum) / n^2
IsPopulationStdDev(v, P) ==
    LET n == Cardinality(P)
        num == n * SumSquares(P) - SumReturns(P) * SumReturns(P)
    IN  /\ n > 0
        /\ v * v * n * n <= num
        /\ num < (v + 1) * (v + 1) * n * n

-----------------------------------------------------------------------------
(* Properties of the price worker                                          *)

\* C11: every row of a result document samples the fetched bar whose bucket
\* start equals start + offset if there is one, else the fetched bar with the
\* smallest bucket start >= the target, else the last fetched bar; with no
\* fetched bar, price and volume are both null.
C11_GridResolution ==
    \A d \in Docs :
        LET j == JobOf(d)
            B == Fetched(j)
        IN  \A i \in DOMAIN d.prices :
                LET r == d.prices[i]
                    target == StartOf(j) + r.t_offset_s
                IN  IF B = {}
                    THEN r.price = Null /\ r.volume = Null
                    ELSE \E b \in B :
                            /\ b.t = ResolvedTime(B, target)
                            /\ r.price = Number(b.c)
                            /\ r.volume = Number(b.v)

\* bars at 0, 5 and 10 and start 0: offset 1 sampled the bar at 5, offset 5 the
\* same bar, and offset 12 the bar at 10
C11_Witness ==
    \E d \in Docs :
        /\ StartOf(JobOf(d)) = 0
        /\ Fetched(JobOf(d)) = {SampleBar(0, 1), SampleBar(5, 2), SampleBar(10, 1)}
        /\ d.prices[1].price = Number(2) /\ d.prices[1].volume = Number(5)
        /\ d.prices[5].price = Number(2)
        /\ d.prices[12].t_offset_s = 12 /\ d.prices[12].price = Number(1)

\* C12: the volatility of a result document is null when fewer than 2 bars were
\* fetched, 0 when all fetched closes are equal and positive, and 0 when
\* exactly two bars with positive closes were fetched.
C12_SigmaEdgeCases ==
    \A d \in Docs :
        LET B == Fetched(JobOf(d))
        IN  /\ Cardinality(B) < 2 => d.sigma_30m = Null
            /\ (Cardinality(B) >= 2 /\ \A a, b \in B : a.c = b.c /\ a.c > 0)
                   => d.sigma_30m = Number(0)
            /\ (Cardinality(B) = 2 /\ \A b \in B : b.c > 0) => d.sigma_30m = Number(0)

\* documents of all three cases: one bar, three equal closes, two different closes
C12_Witness ==
    /\ \E d \in Docs :
        /\ Fetched(JobOf(d)) = {SampleBar(0, 1), SampleBar(5, 1), SampleBar(10, 1)}
        /\ d.sigma_30m = Number(0)
    /\ \E d \in Docs :
        /\ Fetched(JobOf(d)) = {SampleBar(5, 1), SampleBar(10, 1)}
        /\ d.sigma_30m = Number(0)

\* C13: a delivery whose range query fails makes the job fail, and inserts no
\* document.
C13_QueryFailureFailsJob ==
    [][(Delivery /\ ~Delivered.queryOk)
          => (Delivered.settled = "failed" /\ prices' = prices)]_vars

\* C14: a delivery whose processing succeeds appends exactly one document, with
\* the job's signal id, and changes no other; k successful deliveries of a job
\* leave k documents with its signal id.
C14_OneInsertPerSuccess ==
    /\ [](\A j \in JobInputs :
            Cardinality({i \in DOMAIN prices : prices[i].signal_id = [oid |-> j.id]})
                = Cardinality(Succeeded(j)))
    /\ [][(Delivery /\ ~Delivered.logged)
             => /\ Len(prices') = Len(prices) + 1
                /\ SubSeq(prices', 1, Len(prices)) = prices
                /\ prices'[Len(prices')].signal_id = [oid |-> Delivered.data.id]]_vars

\* the same job delivered twice: two documents with one signal id
C14_Witness ==
    /\ Len(jobs) = 2
    /\ jobs[1].data = jobs[2].data
    /\ Len(prices) = 2
    /\ prices[1].signal_id = prices[2].signal_id

\* C19: the volatility computed from at least 2 fetched bars is a number, not
\* negative, and the population standard deviation of the log-returns of the
\* consecutive pairs whose earlier close is positive.
C19_SigmaDefined ==
    \A d \in Docs :
        LET B == Fetched(JobOf(d))
        IN  Cardinality(B) >= 2
                => /\ d.sigma_30m.kind = "number"
                   /\ d.sigma_30m.value >= 0
                   /\ (Cardinality(BarTimes(B)) = Cardinality(B) /\ \A b \in B : b.c > 0)
                          => IsPopulationStdDev(d.sigma_30m.value, UsedPairs(B))

\* C20 as stated: one row per offset of the list, strictly ascending, every
\* whole second from 0 through 30, coarser after 30, ending at 1800, every
\* target inside the window.
C20_DenseFromZero ==
    \A d \in Docs :
        LET offs == OffsetsOf(d)
        IN  /\ offs = OFFSETS_S
            /\ \A i \in 1..(Len(offs) - 1) : offs[i] < offs[i + 1]
            /\ \A k \in 0..30 : \E i \in DOMAIN offs : offs[i] = k
            /\ \A i \in 1..(Len(offs) - 1) : offs[i] >= 30 => offs[i + 1] > offs[i] + 1
            /\ offs[Len(offs)] = 1800
            /\ \A i \in DOMAIN offs : 0 <= offs[i] /\ offs[i] <= 1800

\* C20: the grid of every result document has one row per offset of the list,
\* 70 rows, strictly ascending; it has every whole second from 1 through 30,
\* nothing before 1, coarser spacing after 30, and ends at 1800; every target
\* lies inside the window of 1800 seconds from the start.
C20_GridShape ==
    \A d \in Docs :
        LET offs == OffsetsOf(d)
        IN  /\ offs = OFFSETS_S
            /\ Len(offs) = 70
            /\ \A i \in 1..(Len(offs) - 1) : offs[i] < offs[i + 1]
            /\ offs[1] = 1
            /\ \A k \in 1..30 : offs[k] = k
            /\ \A i \in 1..(Len(offs) - 1) : offs[i] >= 30 => offs[i + 1] > offs[i] + 1
            /\ offs[Len(offs)] = 1800
            /\ \A i \in DOMAIN offs : 0 <= offs[i] /\ offs[i] <= 1800

\* a document whose first row is offset 1 and whose last is offset 1800
C20_Witness ==
    \E d \in Docs :
        /\ d.prices[1].t_offset_s = 1
        /\ d.prices[Len(d.prices)].t_offset_s = 1800
        /\ StartOf(JobOf(d)) = 4

=============================================================================
